---- MODULE Spec2Model ----
(***************************************************************************)
(* Decision Intelligence Live: the budget-constrained action selector      *)
(* (knapsack_select) of src/decision-intelligence-live/app.py, as a state  *)
(* machine.  One call of knapsack_select on a scored table is followed     *)
(* through its phases: eligibility filter, sparse DP over the candidates,  *)
(* scan for the best cell, back-pointer walk, result construction.         *)
(* The script's own run (score_actions, knapsack_select, counterfactual,   *)
(* in this order) is the specification SpecApp.  The reviewer feedback of  *)
(* src/ops-cell-lite/app.py is the specification SpecOps, the loop of      *)
(* contiguous_windows of src/executive-report-factory/app.py is SpecWin.   *)
(*                                                                         *)
(* Number representation (all exact, fixed point):                         *)
(*   cost_clp, budget : integers (CLP)                                     *)
(*   risk, max_risk   : hundredths            (0.55 is 55)                 *)
(*   roi, min_roi     : hundredths                                         *)
(*   score            : units of 1/(1000*SubMilli), so that the code's     *)
(*                      int(score * 1000) is a truncating division by      *)
(*                      SubMilli                                           *)
(*   benefit_score, confidence, risk_penalty : tenths                      *)
(*   effort_days      : even integers (0.25 * effort_days / 20 is then a   *)
(*                      whole number of score units)                       *)
(***************************************************************************)
EXTENDS Integers, Sequences, FiniteSets, TLC

\* ------------------------------------------------------------------ bounds
MaxN == 3            \* longest scored table drawn by Init
MaxItems == 3        \* largest max_actions drawn by Init
BudgetSteps == 6     \* budgets drawn by Init: 0, 500, ..., 500 * BudgetSteps
SubMilli == 2        \* score resolution: 1/SubMilli of a thousandth
MaxRows == 4         \* longest table of the script's run drawn by InitApp
MaxLog == 3          \* longest review_log of Ops Cell Lite
MaxHours == 5        \* longest table given to contiguous_windows

\* --------------------------------------------------------- program constants
unit == 1000         \* cost bucket, app.py line 129
ScoreScale == 1000   \* score scaling factor, app.py line 131
BestInit == -1       \* initial best_v of the scan, app.py line 157

VARIABLES
    pc,          \* position inside knapsack_select
    df,          \* argument: the scored table, in the caller's order
    policy,      \* the caller's Policy (budget and max_actions are the call's arguments)
    candidates,  \* df[df["eligible"]]
    dp,          \* dp[k]: insertion-ordered dict  b -> best value
    parent,      \* parent[k]: dict  b -> (pk, pb, idx)
    idx,         \* outer loop index of the DP (0-based)
    best,        \* (best_k, best_b, best_v)
    kb,          \* (k, b) of the back-pointer walk
    chosen_idx,  \* indices collected by the walk
    selected,    \* returned rows
    info,        \* returned info dict
    outcome,     \* "running", "returned" or the name of the exception raised
    prev,        \* the result of an earlier call on the same table
    raw,         \* the script's df: the table of generate_actions, unscored
    tmp,         \* counterfactual: tmp, as [ref, val]; ref names the object it is
    target,      \* counterfactual: target
    step,        \* counterfactual: position in the current ladder (1-based)
    suggestions, \* counterfactual: suggestions
    probes,      \* history: the policy and eligible count of every ladder probe
    cf,          \* the dict counterfactual returned
    cand,        \* Ops Cell Lite: the incident candidates (rows of det)
    review_log,  \* Ops Cell Lite: st.session_state["review_log"]
    approved,    \* Ops Cell Lite: st.session_state["approved"]
    rejected,    \* Ops Cell Lite: st.session_state["rejected"]
    flash,       \* Ops Cell Lite: the message the last click showed
    reviewed,    \* history: the rows that were on display when feedback was saved
    is_good,     \* contiguous_windows: df["is_good"].tolist()
    min_len,     \* contiguous_windows: argument
    row_i,       \* contiguous_windows: loop index i (0-based)
    start_idx,   \* contiguous_windows: start_idx, None as -1
    windows      \* contiguous_windows: windows, as (first row, last row, hours)

\* The variables of counterfactual and of the script around the calls.
appvars == <<raw, tmp, target, step, suggestions, probes, cf>>

extvars == <<cand, review_log, approved, rejected, flash, reviewed,
             is_good, min_len, row_i, start_idx, windows>>
vars == <<pc, df, policy, candidates, dp, parent, idx, best, kb, chosen_idx,
          selected, info, outcome, prev, appvars, extvars>>

\* Variant: the risk comparison is reversed.
EligibleReversed(row, pol) == row.risk >= pol.max_risk /\ row.roi >= pol.min_roi

\* Variant: the risk bound is exclusive.
EligibleStrict(row, pol) == row.risk < pol.max_risk /\ row.roi >= pol.min_roi

\* ------------------------------------------------------------ data model
\* The eligibility rule of score_actions.
Eligible(row, pol) == row.risk <= pol.max_risk /\ row.roi >= pol.min_roi

\* A scored row as score_actions hands it to knapsack_select.
ScoredRow(row, pol) ==
    [id |-> row.id, cost_clp |-> row.cost_clp, risk |-> row.risk, roi |-> row.roi,
     score |-> row.score, eligible |-> Eligible(row, pol)]

Policy(bud, mr, roi, ma, rp) ==
    [budget |-> bud, max_risk |-> mr, min_roi |-> roi, max_actions |-> ma,
     risk_penalty |-> rp]

budget == policy.budget
max_items == policy.max_actions

\* ------------------------------------------------------------ Python dicts
\* A dict is the sequence of its <<key, value>> items in insertion order;
\* assigning to an existing key keeps the key's position.
DictHas(d, key) == \E i \in 1..Len(d) : d[i][1] = key
DictGet(d, key) == d[CHOOSE i \in 1..Len(d) : d[i][1] = key][2]
DictPut(d, key, val) ==
    IF DictHas(d, key)
    THEN [i \in 1..Len(d) |-> IF d[i][1] = key THEN <<key, val>> ELSE d[i]]
    ELSE Append(d, <<key, val>>)

\* ------------------------------------------------------------ conversions
\* int(x) / astype(int) on a quotient: truncation toward zero.
TruncDiv(a, d) == IF a >= 0 THEN a \div d ELSE -((-a) \div d)

\* (candidates["score"] * 1000).astype(int)
ScaledValue(score) == TruncDiv(score * ScoreScale, ScoreScale * SubMilli)

\* candidates["cost_clp"] // unit
DiscCost(cost_clp) == cost_clp \div unit

costs == [i \in 1..Len(candidates) |-> DiscCost(candidates[i].cost_clp)]
values == [i \in 1..Len(candidates) |-> ScaledValue(candidates[i].score)]
ids == [i \in 1..Len(candidates) |-> candidates[i].id]
B == budget \div unit
n == Len(candidates)

\* ------------------------------------------------------------ knapsack_select
\* Variant: the eligibility filter is skipped (candidates = df.copy()).
FilterAll(t) == t

\* df[df["eligible"]]: the eligible rows, in the order of df.
RECURSIVE FilterEligible(_)
FilterEligible(t) ==
    IF t = <<>> THEN <<>>
    ELSE IF Head(t).eligible THEN <<Head(t)>> \o FilterEligible(Tail(t))
         ELSE FilterEligible(Tail(t))

\* Variant: the early return on an empty candidate table is missing.
EmptyNever(t) == FALSE

\* if candidates.empty
Empty(t) == Len(t) = 0

\* dp = [dict() for _ in range(max_items + 1)]; dp[0][0] = 0
DpInit(mi) == [k \in 0..mi |-> IF k = 0 THEN <<(<<0, 0>>)>> ELSE <<>>]
ParentInit(mi) == [k \in 0..mi |-> <<>>]

\* Variant: a selection that uses the whole budget is rejected (nb >= B).
OverBudgetOrEqual(nb, Bb) == nb >= Bb

\* Variant: the budget test is missing.
OverBudgetNever(nb, Bb) == FALSE

\* if nb > B: continue
OverBudget(nb, Bb) == nb > Bb

\* if nb not in dp[k + 1] or nv > dp[k + 1][nb]
Improves(d, nb, nv) == ~DictHas(d, nb) \/ nv > DictGet(d, nb)

\* Variant: the back-pointer is stored under the bucket the step started from.
RelaxCellKeyedByOrigin(st, k, cell, it) ==
    LET nb == cell[1] + it.c
        nv == cell[2] + it.v
    IN  IF OverBudget(nb, it.B) THEN st
        ELSE IF Improves(st.dp[k + 1], nb, nv)
             THEN [dp |-> [st.dp EXCEPT ![k + 1] = DictPut(@, nb, nv)],
                   parent |-> [st.parent EXCEPT
                                  ![k + 1] = DictPut(@, cell[1], <<k, cell[1], it.idx>>)]]
             ELSE st

\* One pass of the innermost loop body for the item  it = [c, v, idx, B]  and
\* the cell  cell = <<b, best>>  of dp[k];  st = [dp, parent].
RelaxCell(st, k, cell, it) ==
    LET nb == cell[1] + it.c
        nv == cell[2] + it.v
    IN  IF OverBudget(nb, it.B) THEN st
        ELSE IF Improves(st.dp[k + 1], nb, nv)
             THEN [dp |-> [st.dp EXCEPT ![k + 1] = DictPut(@, nb, nv)],
                   parent |-> [st.parent EXCEPT
                                  ![k + 1] = DictPut(@, nb, <<k, cell[1], it.idx>>)]]
             ELSE st

\* for b, best in list(dp[k].items()): the items are a snapshot taken when the
\* loop starts.
RECURSIVE BLoop(_, _, _, _, _)
BLoop(st, items, j, k, it) ==
    IF j > Len(items) THEN st
    ELSE BLoop(RelaxCell(st, k, items[j], it), items, j + 1, k, it)

RECURSIVE KLoopAscending(_, _, _, _)
KLoopAscending(st, k, top, it) ==
    IF k > top THEN st
    ELSE KLoopAscending(BLoop(st, st.dp[k], 1, k, it), k + 1, top, it)

\* Variant: the item counts are visited in ascending order, so a cell written
\* for this candidate is extended by the same candidate again.
DPItemAscending(st, it, mi) == KLoopAscending(st, 0, mi - 1, it)

\* for k in range(max_items - 1, -1, -1)
KStart(mi) == mi - 1

RECURSIVE KLoop(_, _, _)
KLoop(st, k, it) ==
    IF k < 0 THEN st
    ELSE KLoop(BLoop(st, st.dp[k], 1, k, it), k - 1, it)

\* The body of  for idx in range(n)  for one idx.
DPItem(st, it, mi) == KLoop(st, KStart(mi), it)

\* The scan for the best cell: k ascending from 1, each dp[k] in insertion
\* order, a cell replaces the best only when strictly greater.
RECURSIVE ScanCells(_, _, _, _)
ScanCells(bst, items, j, k) ==
    IF j > Len(items) THEN bst
    ELSE ScanCells(IF items[j][2] > bst[3] THEN <<k, items[j][1], items[j][2]>> ELSE bst,
                   items, j + 1, k)

RECURSIVE ScanLevels(_, _, _, _)
ScanLevels(bst, d, k, mi) ==
    IF k > mi THEN bst
    ELSE ScanLevels(ScanCells(bst, d[k], 1, k), d, k + 1, mi)

BestCell(d, mi) == ScanLevels(<<0, 0, BestInit>>, d, 1, mi)

\* chosen_ids = [ids[i] for i in chosen_idx]
ChosenIds(cands, chosen) == {cands[chosen[j] + 1].id : j \in 1..Len(chosen)}

\* candidates[candidates["id"].isin(chosen_ids)]: rows in the order of candidates.
RECURSIVE RowsWithIds(_, _)
RowsWithIds(t, S) ==
    IF t = <<>> THEN <<>>
    ELSE IF Head(t).id \in S THEN <<Head(t)>> \o RowsWithIds(Tail(t), S)
         ELSE RowsWithIds(Tail(t), S)

\* Variant: the filtered candidates are returned instead of the chosen ones.
SelectedAll(cands, chosen) == cands

SelectedRows(cands, chosen) == RowsWithIds(cands, ChosenIds(cands, chosen))

RECURSIVE SumCost(_)
SumCost(t) == IF t = <<>> THEN 0 ELSE Head(t).cost_clp + SumCost(Tail(t))

RECURSIVE SumScore(_)
SumScore(t) == IF t = <<>> THEN 0 ELSE Head(t).score + SumScore(Tail(t))

\* The orders sort_values("score", ascending=False) may return: every
\* arrangement of the rows with non-increasing score (the order among rows of
\* equal score is left to the sort algorithm).
IsPermOf(s, t) ==
    /\ Len(s) = Len(t)
    /\ \E f \in [1..Len(t) -> 1..Len(t)] :
          /\ \A i, j \in 1..Len(t) : i # j => f[i] # f[j]
          /\ \A i \in 1..Len(t) : s[i] = t[f[i]]

SortedByScoreDesc(t) ==
    {s \in [1..Len(t) -> {t[i] : i \in 1..Len(t)}] :
        /\ IsPermOf(s, t)
        /\ \A i \in 1..(Len(t) - 1) : s[i].score >= s[i + 1].score}

InfoNote(note) ==
    [method |-> "knapsack", note |-> note, budget_clp |-> 0, max_items |-> 0,
     selected_count |-> 0, selected_cost_clp |-> 0, selected_score_sum |-> 0]

\* Variant: the aggregates are accumulated over the calls instead of being
\* computed from this call's selection.
InfoCarried(bud, mi, sel) ==
    [method |-> "knapsack", note |-> "", budget_clp |-> bud, max_items |-> mi,
     selected_count |-> prev.info.selected_count + Len(sel),
     selected_cost_clp |-> prev.info.selected_cost_clp + SumCost(sel),
     selected_score_sum |-> prev.info.selected_score_sum + SumScore(sel)]

InfoFull(bud, mi, sel) ==
    [method |-> "knapsack", note |-> "", budget_clp |-> bud, max_items |-> mi,
     selected_count |-> Len(sel), selected_cost_clp |-> SumCost(sel),
     selected_score_sum |-> SumScore(sel)]

\* ------------------------------------------------------------ score_actions
Max(a, b) == IF a >= b THEN a ELSE b
Min(a, b) == IF a <= b THEN a ELSE b

\* def clamp(x, lo, hi): return max(lo, min(hi, x))
clamp(x, lo, hi) == Max(lo, Min(hi, x))

\* score = benefit_score * confidence - risk_penalty * risk - 0.25 * (effort_days / 20),
\* in score units.
ScoreOf(row, pol) ==
    SubMilli * (10 * row.benefit_score * row.confidence - pol.risk_penalty * row.risk)
        - ((25 * SubMilli * row.effort_days) \div 2)

\* Variant: the frame is not copied (out = df), so the caller's table gets
\* the new columns.
AliasFrame(t) == [ref |-> "df", rows |-> t]

\* out = df.copy()
CopyFrame(t) == [ref |-> "out", rows |-> t]

\* out["score"] = ...; out["eligible"] = ...
AddColumns(rows, pol) ==
    [i \in 1..Len(rows) |->
        [score |-> ScoreOf(rows[i], pol), eligible |-> Eligible(rows[i], pol)] @@ rows[i]]

\* Variant: rows of equal eligibility and equal score change places.
ComesBeforeOrTie(a, b) ==
    \/ a.eligible /\ ~b.eligible
    \/ a.eligible = b.eligible /\ a.score >= b.score

\* Sort keys ["eligible", "score"], both descending: a is strictly before b.
ComesBefore(a, b) ==
    \/ a.eligible /\ ~b.eligible
    \/ a.eligible = b.eligible /\ a.score > b.score

\* sort_values on two keys is a lexsort: stable, rows of equal keys keep their
\* order.  InsertSorted puts x behind every row it does not strictly precede.
RECURSIVE InsertSorted(_, _)
InsertSorted(s, x) ==
    IF s = <<>> THEN <<x>>
    ELSE IF ComesBefore(x, Head(s)) THEN <<x>> \o s
         ELSE <<Head(s)>> \o InsertSorted(Tail(s), x)

RECURSIVE SortValues(_, _)
SortValues(done, rest) ==
    IF rest = <<>> THEN done
    ELSE SortValues(InsertSorted(done, Head(rest)), Tail(rest))

\* score_actions(df, policy): the returned table.
ScoreActions(t, pol) == SortValues(<<>>, AddColumns(CopyFrame(t).rows, pol))

\* The caller's table after score_actions(df, policy).
ArgAfterScore(t, pol) == IF CopyFrame(t).ref = "df" THEN AddColumns(t, pol) ELSE t

\* len(x[x["eligible"]])
EligibleCount(t) == Cardinality({i \in 1..Len(t) : t[i].eligible})

\* Variant: the target is not capped at 8.
TargetNoCap(pol) == Max(3, pol.max_actions)

\* ------------------------------------------------------------ counterfactual
\* target = max(3, min(policy.max_actions, 8))
Target(pol) == Max(3, Min(pol.max_actions, 8))

\* The two ladders, in hundredths.
RiskSteps == <<5, 10, 15, 20>>
RoiSteps == <<10, 20, 30, 40>>

\* Variant: tmp is the caller's policy itself (tmp = policy).
AliasPolicy(pol) == [ref |-> "policy", val |-> pol]

\* tmp = Policy(**policy.__dict__): a new object with the same fields.
CopyPolicy(pol) == [ref |-> "tmp", val |-> pol]

\* Variant: the second ladder goes on with the tmp of the first.
KeepTmp(pol, t) == t

\* Line 219: the second ladder starts from a fresh copy.
SecondCopy(pol, t) == CopyPolicy(pol)

\* tmp.max_risk = clamp(policy.max_risk + step, 0.05, 0.95)
RiskProbeValue(pol, i) == clamp(pol.max_risk + RiskSteps[i], 5, 95)

\* tmp.min_roi = max(0.0, policy.min_roi - step)
RoiProbeValue(pol, i) == Max(0, pol.min_roi - RoiSteps[i])

\* Variant: the break is missing, every step of the ladder is probed.
LadderLeftAtEnd(success, i, len) == i = len

\* break on success, or the list of steps is exhausted
LadderLeft(success, i, len) == success \/ i = len

\* Variant: every probe counts as a success.
ReachesAlways(count, tg) == TRUE

\* Variant: a probe succeeds only above the target.
ReachesAbove(count, tg) == count > tg

\* if len(elig[elig["eligible"]]) >= target
Reaches(count, tg) == count >= tg

\* if len(base_eligible) >= target
Sufficient(count, tg) == count >= tg

Suggestion(field, from, to) == [change |-> field, from |-> from, to |-> to]

CfResult(status, sugg) == [status |-> status, suggestions |-> sugg]

\* Variant: any outcome below target is reported as a fix.
StatusAlwaysFix(sugg) == "fix"

\* Lines 232-239: "warn" without suggestions, "fix" with.
StatusOf(sugg) == IF sugg = <<>> THEN "warn" ELSE "fix"

NoTmp == [ref |-> "none", val |-> <<>>]
NoCf == CfResult("none", <<>>)

\* None of start_idx.
None == -1

\* The variables of the other two programs, while they are not run.
ExtIdle ==
    /\ cand = <<>>
    /\ review_log = <<>>
    /\ approved = {}
    /\ rejected = {}
    /\ flash = ""
    /\ reviewed = {}
    /\ is_good = <<>>
    /\ min_len = 0
    /\ row_i = 0
    /\ start_idx = None
    /\ windows = <<>>

\* The variables of counterfactual before it is called.
AppIdle ==
    /\ tmp = NoTmp
    /\ target = 0
    /\ step = 0
    /\ suggestions = <<>>
    /\ probes = <<>>
    /\ cf = NoCf

\* ------------------------------------------------------------ inputs
\* Scored candidates the tables are drawn from: (id, cost_clp, risk, roi, score).
\* Scores are chosen by their scaled value: 1, 5, 3, a negative score of less
\* than a thousandth, -2 and a bit, 7.  A3 is the riskier row (risk 0.40), A6
\* the one of low ROI (0.50); A3 costs one and a half buckets.
Row(i, c, r, roi, s) == [id |-> i, cost_clp |-> c, risk |-> r, roi |-> roi, score |-> s]

Pool ==
    { Row("A1", 1000, 10, 100, 1 * SubMilli),
      Row("A2", 1000, 10, 100, 5 * SubMilli),
      Row("A3", 1500, 40, 200, 3 * SubMilli),
      Row("A4", 2000, 10, 100, -1),
      Row("A5", 1000, 10, 100, -(2 * SubMilli) - 1),
      Row("A6", 3000, 10, 50, 7 * SubMilli) }

\* Tables of pairwise distinct rows of S (ids are unique), in every order.
Tables(S, maxLen) ==
    UNION { {t \in [1..len -> S] : \A i, j \in 1..len : i # j => t[i] # t[j]} :
            len \in 0..maxLen }

Budgets == {500 * i : i \in 0..BudgetSteps}

\* (max_risk, min_roi) of the policies drawn; the last has max_risk = 1.20.
RiskRoi == { <<50, 80>>, <<20, 80>>, <<120, 0>> }

\* The five-candidate scenario: costs 10000..50000, scaled scores 5, 8, 11, 14, 17.
ScenarioRows ==
    { Row("S1", 10000, 10, 100, 5 * SubMilli),
      Row("S2", 20000, 10, 100, 8 * SubMilli),
      Row("S3", 30000, 10, 100, 11 * SubMilli),
      Row("S4", 40000, 10, 100, 14 * SubMilli),
      Row("S5", 50000, 10, 100, 17 * SubMilli) }

ScenarioPolicy == Policy(60000, 50, 80, 2, 9)

NoInfo == InfoNote("")
NoPrev == [has |-> FALSE, budget |-> 0, info |-> NoInfo, ids |-> {}]

\* The state at entry of knapsack_select(df, policy.budget, policy.max_actions).
Entry(t, pol, pv) ==
    /\ pc = "start"
    /\ df = [i \in 1..Len(t) |-> ScoredRow(t[i], pol)]
    /\ policy = pol
    /\ candidates = <<>>
    /\ dp = <<>>
    /\ parent = <<>>
    /\ idx = 0
    /\ best = <<0, 0, BestInit>>
    /\ kb = <<0, 0>>
    /\ chosen_idx = <<>>
    /\ selected = <<>>
    /\ info = NoInfo
    /\ outcome = "running"
    /\ prev = pv
    /\ raw = <<>>
    /\ AppIdle
    /\ ExtIdle

InitGeneral ==
    \E t \in Tables(Pool, MaxN), bud \in Budgets, rr \in RiskRoi, ma \in 0..MaxItems :
        Entry(t, Policy(bud, rr[1], rr[2], ma, 9), NoPrev)

InitScenario ==
    \E t \in Tables(ScenarioRows, Cardinality(ScenarioRows)) :
        /\ Len(t) = Cardinality(ScenarioRows)
        /\ Entry(t, ScenarioPolicy, NoPrev)

Init == InitGeneral \/ InitScenario

\* ------------------------------------------------------------ actions
\* Lines 124-126: no eligible row.
ReturnNoEligible ==
    /\ pc = "start"
    /\ Empty(FilterEligible(df))
    /\ candidates' = FilterEligible(df)
    /\ selected' = <<>>
    /\ info' = InfoNote("no eligible actions")
    /\ outcome' = "returned"
    /\ pc' = "done"
    /\ UNCHANGED <<df, policy, dp, parent, idx, best, kb, chosen_idx, prev>>
    /\ UNCHANGED appvars
    /\ UNCHANGED extvars

\* Lines 124-141: the DP tables are created; a negative max_items leaves dp
\* empty and dp[0][0] = 0 raises IndexError.
StartDP ==
    /\ pc = "start"
    /\ ~Empty(FilterEligible(df))
    /\ candidates' = FilterEligible(df)
    /\ IF max_items < 0
       THEN /\ outcome' = "IndexError"
            /\ pc' = "done"
            /\ UNCHANGED <<dp, parent>>
       ELSE /\ dp' = DpInit(max_items)
            /\ parent' = ParentInit(max_items)
            /\ pc' = IF Len(candidates') = 0 THEN "scan" ELSE "dp"
            /\ UNCHANGED outcome
    /\ idx' = 0
    /\ UNCHANGED <<df, policy, best, kb, chosen_idx, selected, info, prev>>
    /\ UNCHANGED appvars
    /\ UNCHANGED extvars

\* Lines 143-154: one iteration of the outer loop.
DPStep ==
    /\ pc = "dp"
    /\ idx < n
    /\ LET st == DPItem([dp |-> dp, parent |-> parent],
                        [c |-> costs[idx + 1], v |-> values[idx + 1], idx |-> idx, B |-> B],
                        max_items)
       IN  /\ dp' = st.dp
           /\ parent' = st.parent
    /\ idx' = idx + 1
    /\ pc' = IF idx + 1 = n THEN "scan" ELSE "dp"
    /\ UNCHANGED <<df, policy, candidates, best, kb, chosen_idx, selected, info,
                   outcome, prev>>
    /\ UNCHANGED appvars
    /\ UNCHANGED extvars

\* Lines 156-164, best_v < 0: no solution.
ReturnNoSolution ==
    /\ pc = "scan"
    /\ BestCell(dp, max_items)[3] < 0
    /\ best' = BestCell(dp, max_items)
    /\ selected' = <<>>
    /\ info' = InfoNote("no solution")
    /\ outcome' = "returned"
    /\ pc' = "done"
    /\ UNCHANGED <<df, policy, candidates, dp, parent, idx, kb, chosen_idx, prev>>
    /\ UNCHANGED appvars
    /\ UNCHANGED extvars

\* Lines 156-167, best_v >= 0: the walk starts at the best cell.
StartWalk ==
    /\ pc = "scan"
    /\ BestCell(dp, max_items)[3] >= 0
    /\ best' = BestCell(dp, max_items)
    /\ kb' = <<best'[1], best'[2]>>
    /\ chosen_idx' = <<>>
    /\ pc' = "walk"
    /\ UNCHANGED <<df, policy, candidates, dp, parent, idx, selected, info, outcome, prev>>
    /\ UNCHANGED appvars
    /\ UNCHANGED extvars

\* Lines 168-171: one iteration of the walk; a missing back-pointer is a KeyError.
WalkStep ==
    /\ pc = "walk"
    /\ kb[1] > 0
    /\ IF DictHas(parent[kb[1]], kb[2])
       THEN LET p == DictGet(parent[kb[1]], kb[2])
            IN  /\ chosen_idx' = Append(chosen_idx, p[3])
                /\ kb' = <<p[1], p[2]>>
                /\ UNCHANGED <<pc, outcome>>
       ELSE /\ outcome' = "KeyError"
            /\ pc' = "done"
            /\ UNCHANGED <<chosen_idx, kb>>
    /\ UNCHANGED <<df, policy, candidates, dp, parent, idx, best, selected, info, prev>>
    /\ UNCHANGED appvars
    /\ UNCHANGED extvars

\* Lines 173-185: the result.
ReturnSelection ==
    /\ pc = "walk"
    /\ kb[1] = 0
    /\ selected' \in SortedByScoreDesc(SelectedRows(candidates, chosen_idx))
    /\ info' = InfoFull(budget, max_items, selected')
    /\ outcome' = "returned"
    /\ pc' = "done"
    /\ UNCHANGED <<df, policy, candidates, dp, parent, idx, best, kb, chosen_idx, prev>>
    /\ UNCHANGED appvars
    /\ UNCHANGED extvars

\* The caller keeps or raises the budget and calls knapsack_select again on the
\* same scored table (a Streamlit rerun, the what-if slider); the earlier
\* result is kept for comparison.
Rerun ==
    /\ pc = "done"
    /\ outcome = "returned"
    /\ ~prev.has
    /\ \E nb \in Budgets :
          /\ nb >= budget
          /\ policy' = [policy EXCEPT !.budget = nb]
    /\ prev' = [has |-> TRUE, budget |-> budget, info |-> info,
                 ids |-> {selected[i].id : i \in 1..Len(selected)}]
    /\ pc' = "start"
    /\ candidates' = <<>>
    /\ dp' = <<>>
    /\ parent' = <<>>
    /\ idx' = 0
    /\ best' = <<0, 0, BestInit>>
    /\ kb' = <<0, 0>>
    /\ chosen_idx' = <<>>
    /\ selected' = <<>>
    /\ info' = NoInfo
    /\ outcome' = "running"
    /\ UNCHANGED df
    /\ UNCHANGED appvars
    /\ UNCHANGED extvars

Next ==
    \/ ReturnNoEligible
    \/ StartDP
    \/ DPStep
    \/ ReturnNoSolution
    \/ StartWalk
    \/ WalkStep
    \/ ReturnSelection
    \/ Rerun

Spec == Init /\ [][Next]_vars

\* ------------------------------------------------------------ the script
\* Candidates of generate_actions the script's tables are drawn from.
RawRow(i, c, bs, r, e, conf, roi) ==
    [id |-> i, cost_clp |-> c, benefit_score |-> bs, risk |-> r, effort_days |-> e,
     confidence |-> conf, roi |-> roi]

\* B1 and B2 score the same under every policy; B5 has a negative score.
AppPool ==
    { RawRow("B1", 1000, 20, 10, 2, 8, 100),
      RawRow("B2", 2000, 20, 10, 2, 8, 80),
      RawRow("B3", 1000, 30, 15, 4, 9, 100),
      RawRow("B4", 1000, 10, 25, 2, 5, 50),
      RawRow("B5", 1000, 2, 10, 20, 5, 50) }

AppMaxRisk == {0, 5, 10, 20, 90, 100}
AppMinRoi == {0, 80, 120}
AppMaxActions == {2, 4}
AppRiskPenalty == {3, 9}

\* A table of eight candidates, for targets above the table sizes of AppPool:
\* six of risk 0.10, two of risk 0.15.
BigIds == <<"G1", "G2", "G3", "G4", "G5", "G6", "G7", "G8">>
BigTable ==
    [i \in 1..Len(BigIds) |->
        RawRow(BigIds[i], 1000, 10 + i, IF i <= 6 THEN 10 ELSE 15, 2, 8, 100)]

\* The script before score_actions is called (line 271).
AppEntry(t, pol) ==
    /\ pc = "score"
    /\ raw = t
    /\ policy = pol
    /\ df = <<>>
    /\ candidates = <<>>
    /\ dp = <<>>
    /\ parent = <<>>
    /\ idx = 0
    /\ best = <<0, 0, BestInit>>
    /\ kb = <<0, 0>>
    /\ chosen_idx = <<>>
    /\ selected = <<>>
    /\ info = NoInfo
    /\ outcome = "running"
    /\ prev = NoPrev
    /\ AppIdle
    /\ ExtIdle

InitApp ==
    \/ \E t \in Tables(AppPool, MaxRows), mr \in AppMaxRisk, roi \in AppMinRoi,
          ma \in AppMaxActions :
          AppEntry(t, Policy(2000, mr, roi, ma, 9))
    \/ \E mr \in {10, 20}, ma \in {8, 9}, rp \in AppRiskPenalty :
          AppEntry(BigTable, Policy(2000, mr, 80, ma, rp))

\* Line 271: scored = score_actions(df, policy); line 315 then passes scored to
\* knapsack_select.
ScoreStep ==
    /\ pc = "score"
    /\ df' = ScoreActions(raw, policy)
    /\ raw' = ArgAfterScore(raw, policy)
    /\ pc' = "start"
    /\ UNCHANGED <<policy, candidates, dp, parent, idx, best, kb, chosen_idx, selected,
                   info, outcome, prev, tmp, target, step, suggestions, probes, cf>>
    /\ UNCHANGED extvars

\* The policy tmp stands for.
TmpVal == IF tmp.ref = "policy" THEN policy ELSE tmp.val

Probe(field, i, pol, count) ==
    [change |-> field, step |-> i, max_risk |-> pol.max_risk, min_roi |-> pol.min_roi,
     count |-> count]

\* Line 336 and lines 196-205: counterfactual(policy, df) up to the first ladder.
CFBase ==
    /\ pc = "done"
    /\ LET count == EligibleCount(ScoreActions(raw, policy))
           tg == Target(policy)
       IN  /\ target' = tg
           /\ IF Sufficient(count, tg)
              THEN /\ cf' = CfResult("ok", <<>>)
                   /\ pc' = "end"
                   /\ UNCHANGED <<tmp, step>>
              ELSE /\ tmp' = CopyPolicy(policy)
                   /\ step' = 1
                   /\ pc' = "cf_risk"
                   /\ UNCHANGED cf
    /\ raw' = ArgAfterScore(raw, policy)
    /\ suggestions' = <<>>
    /\ probes' = <<>>
    /\ UNCHANGED <<df, policy, candidates, dp, parent, idx, best, kb, chosen_idx, selected,
                   info, outcome, prev>>
    /\ UNCHANGED extvars

\* Lines 206-219: one step of the max_risk ladder; when the ladder is left,
\* tmp is made anew for the second ladder.
CFRiskProbe ==
    /\ pc = "cf_risk"
    /\ LET tv == [TmpVal EXCEPT !.max_risk = RiskProbeValue(policy, step)]
           pol == IF tmp.ref = "policy" THEN tv ELSE policy
           count == EligibleCount(ScoreActions(raw, tv))
           success == Reaches(count, target)
       IN  /\ policy' = pol
           /\ raw' = ArgAfterScore(raw, tv)
           /\ probes' = Append(probes, Probe("max_risk", step, tv, count))
           /\ suggestions' =
                 IF success
                 THEN Append(suggestions, Suggestion("max_risk", pol.max_risk, tv.max_risk))
                 ELSE suggestions
           /\ IF LadderLeft(success, step, Len(RiskSteps))
              THEN /\ tmp' = SecondCopy(pol, [tmp EXCEPT !.val = tv])
                   /\ step' = 1
                   /\ pc' = "cf_roi"
              ELSE /\ tmp' = [tmp EXCEPT !.val = tv]
                   /\ step' = step + 1
                   /\ pc' = "cf_risk"
    /\ UNCHANGED <<df, candidates, dp, parent, idx, best, kb, chosen_idx, selected,
                   info, outcome, prev, target, cf>>
    /\ UNCHANGED extvars

\* Lines 220-230: one step of the min_roi ladder.
CFRoiProbe ==
    /\ pc = "cf_roi"
    /\ LET tv == [TmpVal EXCEPT !.min_roi = RoiProbeValue(policy, step)]
           pol == IF tmp.ref = "policy" THEN tv ELSE policy
           count == EligibleCount(ScoreActions(raw, tv))
           success == Reaches(count, target)
       IN  /\ policy' = pol
           /\ raw' = ArgAfterScore(raw, tv)
           /\ probes' = Append(probes, Probe("min_roi", step, tv, count))
           /\ suggestions' =
                 IF success
                 THEN Append(suggestions, Suggestion("min_roi", pol.min_roi, tv.min_roi))
                 ELSE suggestions
           /\ tmp' = [tmp EXCEPT !.val = tv]
           /\ IF LadderLeft(success, step, Len(RoiSteps))
              THEN /\ step' = 0
                   /\ pc' = "cf_ret"
              ELSE /\ step' = step + 1
                   /\ pc' = "cf_roi"
    /\ UNCHANGED <<df, candidates, dp, parent, idx, best, kb, chosen_idx, selected,
                   info, outcome, prev, target, cf>>
    /\ UNCHANGED extvars

\* Lines 232-239: the returned dict.
CFReturn ==
    /\ pc = "cf_ret"
    /\ cf' = CfResult(StatusOf(suggestions), suggestions)
    /\ pc' = "end"
    /\ UNCHANGED <<df, policy, candidates, dp, parent, idx, best, kb, chosen_idx, selected,
                   info, outcome, prev, raw, tmp, target, step, suggestions, probes>>
    /\ UNCHANGED extvars

NextApp ==
    \/ ScoreStep
    \/ ReturnNoEligible
    \/ StartDP
    \/ DPStep
    \/ ReturnNoSolution
    \/ StartWalk
    \/ WalkStep
    \/ ReturnSelection
    \/ CFBase
    \/ CFRiskProbe
    \/ CFRoiProbe
    \/ CFReturn

SpecApp == InitApp /\ [][NextApp]_vars

\* ------------------------------------------------------------ Ops Cell Lite
\* src/ops-cell-lite/app.py.  A timestamp is a number of minutes counted from
\* the midnight before t0; a note is a sequence of characters.

\* timedelta(minutes=15 * i)
StepMinutes == 15

\* strftime('%H%M') starts over every 24 hours.
DayMinutes == 1440

\* cand.head(12)
HeadRows == 12

Severities == {"Critical", "High", "Medium"}

\* cand["severity"].map({"Critical": 3, "High": 2, "Medium": 1})
rank(sev) == CASE sev = "Critical" -> 3 [] sev = "High" -> 2 [] sev = "Medium" -> 1

\* ts of synth_signals: t0 + 15 i minutes for i in range((hours * 60) // 15)
TsIndices(hours) == 0..(((hours * 60) \div StepMinutes) - 1)
TsOf(t0, k) == t0 + StepMinutes * k

\* pd.to_datetime(row['ts']).strftime('%H%M'), as (hour, minute)
HHMM(ts) == <<(ts % DayMinutes) \div 60, ts % 60>>

\* Variant: the id carries the whole timestamp.
IncidentIdFullTs(row) == <<"INC", row.ts, row.severity>>

\* f"INC-{...strftime('%H%M')}-{row['severity']}"
IncidentId(row) == <<"INC", HHMM(row.ts), row.severity>>

\* sort_values(["rank", "ts"], ascending=[False, False]).head(12) of a set of
\* rows of distinct ts
CandOf(S) ==
    LET sorted == CHOOSE s \in [1..Cardinality(S) -> S] :
                      /\ \A r \in S : \E j \in 1..Cardinality(S) : s[j] = r
                      /\ \A j \in 1..(Cardinality(S) - 1) :
                            \/ rank(s[j].severity) > rank(s[j + 1].severity)
                            \/ /\ rank(s[j].severity) = rank(s[j + 1].severity)
                               /\ s[j].ts > s[j + 1].ts
    IN  SubSeq(sorted, 1, Min(HeadRows, Cardinality(S)))

NoDecision == "(sin decisión)"
Decisions == {NoDecision, "Approve", "Reject"}

\* note.strip()
RECURSIVE StripLeft(_)
StripLeft(s) == IF s # <<>> /\ Head(s) = " " THEN StripLeft(Tail(s)) ELSE s

RECURSIVE StripRight(_)
StripRight(s) ==
    IF s # <<>> /\ s[Len(s)] = " " THEN StripRight(SubSeq(s, 1, Len(s) - 1)) ELSE s

Strip(s) == StripRight(StripLeft(s))

\* The reviewer dict of an incident: the most recent entry of review_log with
\* its incident_id, or no decision.
RECURSIVE LatestFor(_, _)
LatestFor(log, iid) ==
    IF log = <<>> THEN [decision |-> "", note |-> <<>>]
    ELSE IF log[Len(log)].incident_id = iid
         THEN [decision |-> log[Len(log)].decision, note |-> log[Len(log)].note]
         ELSE LatestFor(SubSeq(log, 1, Len(log) - 1), iid)

\* incidents / final_incidents: one Incident per row of cand, in cand's order.
Incidents ==
    [j \in 1..Len(cand) |->
        [incident_id |-> IncidentId(cand[j]), ts |-> cand[j].ts,
         severity |-> cand[j].severity,
         reviewer |-> LatestFor(review_log, IncidentId(cand[j]))]]

\* inc = next(i for i in incidents if i.incident_id == sel)
IncOf(sel) ==
    Incidents[CHOOSE j \in 1..Len(cand) :
                  /\ Incidents[j].incident_id = sel
                  /\ \A h \in 1..(j - 1) : Incidents[h].incident_id # sel]

\* Variant: the other set is left as it is.
DecideWithoutDiscard(decision, sel, app, rej) ==
    IF decision = "Approve"
    THEN [approved |-> app \cup {sel}, rejected |-> rej]
    ELSE [approved |-> app, rejected |-> rej \cup {sel}]

\* Lines 488-493: add to one set, discard from the other.
Decide(decision, sel, app, rej) ==
    IF decision = "Approve"
    THEN [approved |-> app \cup {sel}, rejected |-> rej \ {sel}]
    ELSE [approved |-> app \ {sel}, rejected |-> rej \cup {sel}]

\* Horizons, time of day of t0, row indices and notes the runs are drawn from.
OpsHours == {6, 30}
OpsT0 == {605}
OpsIndices == {0, 1, 96}
OpsNotes == {<<" ", "o", "k", " ">>}

OpsEntry(S) ==
    /\ pc = "ops"
    /\ cand = CandOf(S)
    /\ review_log = <<>>
    /\ approved = {}
    /\ rejected = {}
    /\ flash = ""
    /\ reviewed = {}
    /\ is_good = <<>>
    /\ min_len = 0
    /\ row_i = 0
    /\ start_idx = None
    /\ windows = <<>>
    /\ df = <<>>
    /\ policy = <<>>
    /\ candidates = <<>>
    /\ dp = <<>>
    /\ parent = <<>>
    /\ idx = 0
    /\ best = <<0, 0, BestInit>>
    /\ kb = <<0, 0>>
    /\ chosen_idx = <<>>
    /\ selected = <<>>
    /\ info = NoInfo
    /\ outcome = "running"
    /\ prev = NoPrev
    /\ raw = <<>>
    /\ AppIdle

\* The script up to line 348: the candidates of some data set, a new session.
InitOps ==
    \E hours \in OpsHours, t0 \in OpsT0 :
        \E I \in SUBSET (OpsIndices \cap TsIndices(hours)) :
            \E sev \in [I -> Severities] :
                OpsEntry({[ts |-> TsOf(t0, k), severity |-> sev[k]] : k \in I})

\* Lines 451-495: an incident is selected, a decision and a note are entered
\* and "Guardar feedback" is clicked.
SaveFeedback ==
    /\ pc = "ops"
    /\ cand # <<>>
    /\ \E sel \in {Incidents[j].incident_id : j \in 1..Len(cand)},
          decision \in Decisions, note \in OpsNotes :
          IF decision = NoDecision
          THEN /\ flash' = "warning"
               /\ UNCHANGED <<review_log, approved, rejected, reviewed>>
          ELSE /\ Len(review_log) < MaxLog
               /\ review_log' = Append(review_log,
                                       [ts |-> Len(review_log), incident_id |-> sel,
                                        decision |-> decision, note |-> Strip(note)])
               /\ approved' = Decide(decision, sel, approved, rejected).approved
               /\ rejected' = Decide(decision, sel, approved, rejected).rejected
               /\ reviewed' = reviewed \cup {IncOf(sel).ts}
               /\ flash' = "success"
    /\ UNCHANGED <<pc, cand, is_good, min_len, row_i, start_idx, windows>>
    /\ UNCHANGED <<df, policy, candidates, dp, parent, idx, best, kb, chosen_idx, selected,
                   info, outcome, prev, appvars>>

NextOps == SaveFeedback

SpecOps == InitOps /\ [][NextOps]_vars

\* ------------------------------------------------------------ contiguous_windows
\* src/executive-report-factory/app.py, lines 95-124.  The table is in time
\* order (fetch_open_meteo sorts it), a row is named by its 0-based position,
\* a window by the positions of its first and last row.

\* Variant: the window always ends at the row before the current one.
EndIdxBefore(good, k, len) == k - 1

\* end_idx = i if good and i == len(df) - 1 else i - 1
EndIdx(good, k, len) == IF good /\ k = len - 1 THEN k ELSE k - 1

Window(first, last, hours) == [start |-> first, end |-> last, hours |-> hours]

\* is_good columns and min_len values the calls are drawn from.
GoodColumns == UNION {[1..len -> BOOLEAN] : len \in 0..MaxHours}
WinMinLens == 1..3

WinEntry(col, ml) ==
    /\ pc = "win"
    /\ is_good = col
    /\ min_len = ml
    /\ row_i = 0
    /\ start_idx = None
    /\ windows = <<>>
    /\ cand = <<>>
    /\ review_log = <<>>
    /\ approved = {}
    /\ rejected = {}
    /\ flash = ""
    /\ reviewed = {}
    /\ df = <<>>
    /\ policy = <<>>
    /\ candidates = <<>>
    /\ dp = <<>>
    /\ parent = <<>>
    /\ idx = 0
    /\ best = <<0, 0, BestInit>>
    /\ kb = <<0, 0>>
    /\ chosen_idx = <<>>
    /\ selected = <<>>
    /\ info = NoInfo
    /\ outcome = "running"
    /\ prev = NoPrev
    /\ raw = <<>>
    /\ AppIdle

InitWin == \E col \in GoodColumns, ml \in WinMinLens : WinEntry(col, ml)

\* Lines 96-97: an empty table gives an empty result.
WinReturnEmpty ==
    /\ pc = "win"
    /\ is_good = <<>>
    /\ windows' = <<>>
    /\ pc' = "win_done"
    /\ UNCHANGED <<is_good, min_len, row_i, start_idx>>
    /\ UNCHANGED <<cand, review_log, approved, rejected, flash, reviewed>>
    /\ UNCHANGED <<df, policy, candidates, dp, parent, idx, best, kb, chosen_idx, selected,
                   info, outcome, prev, appvars>>

\* Lines 102-122: one iteration of the loop.
WinStep ==
    /\ pc = "win"
    /\ is_good # <<>>
    /\ row_i < Len(is_good)
    /\ LET good == is_good[row_i + 1]
           first == IF good /\ start_idx = None THEN row_i ELSE start_idx
       IN  IF (~good \/ row_i = Len(is_good) - 1) /\ first # None
           THEN LET end_idx == EndIdx(good, row_i, Len(is_good))
                    hours == end_idx - first + 1
                IN  /\ windows' = IF hours >= min_len
                                  THEN Append(windows, Window(first, end_idx, hours))
                                  ELSE windows
                    /\ start_idx' = None
           ELSE /\ start_idx' = first
                /\ UNCHANGED windows
    /\ row_i' = row_i + 1
    /\ UNCHANGED <<pc, is_good, min_len>>
    /\ UNCHANGED <<cand, review_log, approved, rejected, flash, reviewed>>
    /\ UNCHANGED <<df, policy, candidates, dp, parent, idx, best, kb, chosen_idx, selected,
                   info, outcome, prev, appvars>>

\* Line 124: the loop is over, the windows are returned.
WinReturn ==
    /\ pc = "win"
    /\ is_good # <<>>
    /\ row_i = Len(is_good)
    /\ pc' = "win_done"
    /\ UNCHANGED <<is_good, min_len, row_i, start_idx, windows>>
    /\ UNCHANGED <<cand, review_log, approved, rejected, flash, reviewed>>
    /\ UNCHANGED <<df, policy, candidates, dp, parent, idx, best, kb, chosen_idx, selected,
                   info, outcome, prev, appvars>>

NextWin ==
    \/ WinReturnEmpty
    \/ WinStep
    \/ WinReturn

SpecWin == InitWin /\ [][NextWin]_vars

\* ------------------------------------------------------------ properties
Returned == pc = "done" /\ outcome = "returned"

RowSet(t) == {t[i] : i \in 1..Len(t)}

\* The eligible rows of the argument, read off the table's own column.
EligibleRows == {r \in RowSet(df) : r.eligible}

RECURSIVE ScaledSum(_)
ScaledSum(S) ==
    IF S = {} THEN 0
    ELSE LET x == CHOOSE y \in S : TRUE IN ScaledValue(x.score) + ScaledSum(S \ {x})

RECURSIVE DiscSum(_)
DiscSum(S) ==
    IF S = {} THEN 0
    ELSE LET x == CHOOSE y \in S : TRUE IN (x.cost_clp \div unit) + DiscSum(S \ {x})

\* C1: whenever knapsack_select returns, the true costs (cost_clp) of the
\* returned rows sum to at most the budget, for costs that need not be
\* multiples of 1000.
C1_CostWithinBudget == Returned => SumCost(selected) <= budget

\* C2: the returned selection's total scaled score is at least that of every
\* set of eligible candidates with at most max_items members whose discretized
\* costs sum to at most budget div 1000, whatever the order of the table.
C2_OptimalInBuckets ==
    Returned =>
        \A S \in SUBSET EligibleRows :
            (Cardinality(S) <= max_items /\ DiscSum(S) <= budget \div unit)
                => ScaledSum(RowSet(selected)) >= ScaledSum(S)

\* C3: whenever knapsack_select returns, it returns at most max_items rows.
C3_CountWithinMaxItems == Returned => Len(selected) <= max_items

\* C3 witness: more candidates than max_items, and the limit is reached.
C3_Witness ==
    /\ Returned
    /\ max_items >= 2
    /\ Len(candidates) > max_items
    /\ Len(selected) = max_items

\* C4: every returned row is eligible: its flag is set, its risk is at most
\* max_risk and its roi at least min_roi.
C4_SelectedEligible ==
    Returned =>
        \A i \in 1..Len(selected) :
            /\ selected[i].eligible
            /\ selected[i].risk <= policy.max_risk
            /\ selected[i].roi >= policy.min_roi

\* C4 witness: a non-empty selection is returned although the table holds an
\* ineligible row that scores higher than every returned row and fits the
\* budget on its own.
C4_Witness ==
    /\ Returned
    /\ selected # <<>>
    /\ \E r \in RowSet(df) :
          /\ ~r.eligible
          /\ r.cost_clp <= budget
          /\ \A i \in 1..Len(selected) : r.score > selected[i].score

\* C5: if every eligible candidate has a negative score, however small, the
\* returned selection is empty.
C5_NegativeScoresGiveEmpty ==
    (Returned /\ \A r \in EligibleRows : r.score < 0) => selected = <<>>

\* C6: on the same scored table and max_items, a call with a larger budget
\* returns a selection whose total score (selected_score_sum, 0 for an empty
\* selection) is at least that of the call with the smaller budget.
C6_BudgetMonotone ==
    (Returned /\ prev.has) =>
        info.selected_score_sum >= prev.info.selected_score_sum

\* The scenario: the five candidates in some order, budget 60000, max_items 2.
IsScenario ==
    /\ Len(df) = Cardinality(ScenarioRows)
    /\ {df[i].id : i \in 1..Len(df)} = {r.id : r \in ScenarioRows}
    /\ policy = ScenarioPolicy

\* C7: in the scenario, in whatever order the five candidates are supplied,
\* the call returns two distinct candidates whose costs sum to 60000 and whose
\* scaled scores sum to exactly 22.
C7_ScenarioScore22 ==
    (pc = "done" /\ IsScenario) =>
        /\ outcome = "returned"
        /\ Len(selected) = 2
        /\ selected[1].id # selected[2].id
        /\ SumCost(selected) = 60000
        /\ ScaledSum(RowSet(selected)) = 22

\* C7 witness: the scenario, supplied with the dearest candidate first and the
\* cheapest last, has returned.
C7_Witness ==
    /\ Returned
    /\ IsScenario
    /\ df[1].id = "S5"
    /\ df[5].id = "S1"

\* C8: when the table has no eligible row (the empty table included), the call
\* returns the empty selection with the note 'no eligible actions', raises
\* nothing, and no DP table is created nor any DP step executed.
C8_NoEligible ==
    (\A i \in 1..Len(df) : ~df[i].eligible) =>
        /\ pc \in {"start", "done"}
        /\ dp = <<>>
        /\ idx = 0
        /\ pc = "done" => /\ outcome = "returned"
                          /\ selected = <<>>
                          /\ info.note = "no eligible actions"

\* C8 witness: a non-empty table without eligible rows has returned.
C8_Witness ==
    /\ Returned
    /\ df # <<>>
    /\ \A i \in 1..Len(df) : ~df[i].eligible
    /\ max_items >= 1
    /\ \E i \in 1..Len(df) : df[i].cost_clp <= budget

\* C9: when some row is eligible and every eligible row has a discretized cost
\* above budget div 1000, the call returns the empty selection with the note
\* 'no solution' and raises nothing.
C9_BudgetTooSmall ==
    (/\ pc = "done"
     /\ EligibleRows # {}
     /\ \A r \in EligibleRows : r.cost_clp \div unit > budget \div unit) =>
        /\ outcome = "returned"
        /\ selected = <<>>
        /\ info.note = "no solution"

\* C9 witness: a positive budget and max_items >= 1, two eligible rows, none
\* affordable.
C9_Witness ==
    /\ Returned
    /\ budget > 0
    /\ max_items >= 1
    /\ Cardinality(EligibleRows) >= 2
    /\ \A r \in EligibleRows : r.cost_clp \div unit > budget \div unit

\* A well-formed policy and table: budget and max_actions positive, max_risk
\* and every candidate's risk within [0, 1] (hundredths).
ValidPolicy ==
    /\ budget > 0
    /\ max_items > 0
    /\ 0 <= policy.max_risk /\ policy.max_risk <= 100
    /\ \A i \in 1..Len(df) : 0 <= df[i].risk /\ df[i].risk <= 100

\* C10: a policy with budget <= 0, max_actions <= 0 or a probability-like
\* field outside [0, 1] is rejected with InvalidPolicy at entry: the call never
\* gets past its entry other than by raising InvalidPolicy.
C10_InvalidPolicyRejected ==
    ~ValidPolicy => (pc = "start" \/ outcome = "InvalidPolicy")

\* ------------------------------------------------------------ score_actions
\* The table score_actions returned is in df.
Scored == pc \notin {"score"}

\* Position of the candidate of the given id in a table.
Pos(t, i) == CHOOSE j \in 1..Len(t) : t[j].id = i

\* C11: score_actions marks a candidate eligible if and only if its risk is
\* at most policy.max_risk and its roi is at least policy.min_roi, both bounds
\* inclusive; nothing else of the candidate or the policy enters.
C11_EligibleIff ==
    Scored =>
        \A i \in 1..Len(df) :
            df[i].eligible <=> (df[i].risk <= policy.max_risk /\ df[i].roi >= policy.min_roi)

\* C11 witness: a scored table with a candidate eligible at both bounds, one
\* ineligible by risk alone and one ineligible by roi alone.
C11_Witness ==
    /\ pc = "start"
    /\ \E r \in RowSet(df) : r.eligible /\ r.risk = policy.max_risk /\ r.roi = policy.min_roi
    /\ \E r \in RowSet(df) : ~r.eligible /\ r.risk > policy.max_risk /\ r.roi >= policy.min_roi
    /\ \E r \in RowSet(df) : ~r.eligible /\ r.risk <= policy.max_risk /\ r.roi < policy.min_roi

\* C12: the table score_actions returns is a permutation of the input
\* candidates, every eligible candidate before every ineligible one,
\* candidates of equal eligibility in non-increasing score order, and
\* candidates of equal eligibility and score in their input order.
C12_SortedStablePermutation ==
    Scored =>
        /\ Len(df) = Len(raw)
        /\ \A i \in 1..Len(raw) :
              \E j \in 1..Len(df) :
                  \A f \in DOMAIN raw[i] : f \in DOMAIN df[j] /\ df[j][f] = raw[i][f]
        /\ \A i, j \in 1..Len(df) :
              i < j =>
                  /\ df[i].eligible \/ ~df[j].eligible
                  /\ df[i].eligible = df[j].eligible => df[i].score >= df[j].score
                  /\ (df[i].eligible = df[j].eligible /\ df[i].score = df[j].score) =>
                        Pos(raw, df[i].id) < Pos(raw, df[j].id)

\* C12 witness: a scored table with eligible and ineligible candidates, two
\* candidates tied in eligibility and score, and an order other than the
\* input's.
C12_Witness ==
    /\ pc = "start"
    /\ \E i, j \in 1..Len(df) : df[i].eligible /\ ~df[j].eligible
    /\ \E i, j \in 1..Len(df) :
          i < j /\ df[i].eligible = df[j].eligible /\ df[i].score = df[j].score
    /\ \E i \in 1..Len(df) : df[i].id # raw[i].id

\* ------------------------------------------------------------ counterfactual
\* counterfactual has returned.
Ended == pc = "end"

\* Number of input candidates eligible under the given bounds.
CountUnder(mr, roi) ==
    Cardinality({i \in 1..Len(raw) : raw[i].risk <= mr /\ raw[i].roi >= roi})

BaseCount == CountUnder(policy.max_risk, policy.min_roi)

\* max(3, min(max_actions, 8))
Needed ==
    IF policy.max_actions < 3 THEN 3
    ELSE IF policy.max_actions > 8 THEN 8 ELSE policy.max_actions

\* Value of the k-th step of the max_risk ladder: +0.05 k within [0.05, 0.95].
ExpectedRisk(k) ==
    LET v == policy.max_risk + 5 * k
    IN  IF v > 95 THEN 95 ELSE IF v < 5 THEN 5 ELSE v

\* Value of the k-th step of the min_roi ladder: -0.10 k, floored at 0.
ExpectedRoi(k) ==
    LET v == policy.min_roi - 10 * k
    IN  IF v < 0 THEN 0 ELSE v

RiskProbes == SelectSeq(probes, LAMBDA p : p.change = "max_risk")
RoiProbes == SelectSeq(probes, LAMBDA p : p.change = "min_roi")
RiskSuggestions == SelectSeq(cf.suggestions, LAMBDA g : g.change = "max_risk")
RoiSuggestions == SelectSeq(cf.suggestions, LAMBDA g : g.change = "min_roi")

\* Steps of each ladder that reach the given count.
RiskStepsReaching(c) == {k \in 1..4 : CountUnder(ExpectedRisk(k), policy.min_roi) >= c}
RoiStepsReaching(c) == {k \in 1..4 : CountUnder(policy.max_risk, ExpectedRoi(k)) >= c}
First(S) == CHOOSE k \in S : \A j \in S : k <= j

C14_FirstSuccessPerLadder ==
    /\ probes = RiskProbes \o RoiProbes
    /\ \A k \in 1..Len(RiskProbes) :
          /\ k <= 4
          /\ RiskProbes[k].step = k
          /\ RiskProbes[k].max_risk = ExpectedRisk(k)
          /\ k < Len(RiskProbes) => RiskProbes[k].count < Needed
    /\ \A k \in 1..Len(RoiProbes) :
          /\ k <= 4
          /\ RoiProbes[k].step = k
          /\ RoiProbes[k].min_roi = ExpectedRoi(k)
          /\ k < Len(RoiProbes) => RoiProbes[k].count < Needed
    /\ (Ended /\ cf.status # "ok") =>
          /\ Len(RiskSuggestions) <= 1
          /\ Len(RoiSuggestions) <= 1
          /\ IF RiskStepsReaching(Needed) # {}
             THEN /\ Len(RiskProbes) = First(RiskStepsReaching(Needed))
                  /\ Len(RiskSuggestions) = 1
                  /\ RiskSuggestions[1].to = ExpectedRisk(First(RiskStepsReaching(Needed)))
             ELSE Len(RiskProbes) = 4 /\ RiskSuggestions = <<>>
          /\ IF RoiStepsReaching(Needed) # {}
             THEN /\ Len(RoiProbes) = First(RoiStepsReaching(Needed))
                  /\ Len(RoiSuggestions) = 1
                  /\ RoiSuggestions[1].to = ExpectedRoi(First(RoiStepsReaching(Needed)))
             ELSE Len(RoiProbes) = 4 /\ RoiSuggestions = <<>>

\* C14 witness: the min_roi ladder succeeded at its third step, after two
\* failing probes, although its fourth step would succeed as well.
C14_Witness ==
    /\ Ended
    /\ Len(RoiProbes) = 3
    /\ RoiProbes[2].count < Needed
    /\ RoiProbes[3].count >= Needed
    /\ 4 \in RoiStepsReaching(Needed)
    /\ Len(RoiSuggestions) = 1

\* C15: probes do not compound: every max_risk probe uses the original
\* min_roi and the original max_risk plus its step, every min_roi probe uses
\* the original max_risk and the original min_roi minus its step.
C15_ProbesDoNotCompound ==
    \A i \in 1..Len(probes) :
        /\ probes[i].change = "max_risk" =>
              /\ probes[i].min_roi = policy.min_roi
              /\ probes[i].max_risk = ExpectedRisk(probes[i].step)
        /\ probes[i].change = "min_roi" =>
              /\ probes[i].max_risk = policy.max_risk
              /\ probes[i].min_roi = ExpectedRoi(probes[i].step)

\* C15 witness: the max_risk ladder succeeded at its second step or later and
\* the min_roi ladder was probed afterwards.
C15_Witness ==
    /\ Ended
    /\ Len(RiskProbes) >= 2
    /\ Len(RiskSuggestions) = 1
    /\ Len(RoiProbes) >= 1
    /\ RiskSuggestions[1].to # policy.max_risk

\* Suggestions of the ladders that reach the target, max_risk first.
ExpectedSuggestions ==
    (IF RiskStepsReaching(Needed) # {}
     THEN <<[change |-> "max_risk", from |-> policy.max_risk,
             to |-> ExpectedRisk(First(RiskStepsReaching(Needed)))]>>
     ELSE <<>>)
    \o
    (IF RoiStepsReaching(Needed) # {}
     THEN <<[change |-> "min_roi", from |-> policy.min_roi,
             to |-> ExpectedRoi(First(RoiStepsReaching(Needed)))]>>
     ELSE <<>>)

\* C16: below target, counterfactual returns "fix" with exactly the
\* suggestions of the ladders that succeeded, max_risk first, when a ladder
\* succeeds, and "warn" with no suggestion otherwise; the status is "fix" if
\* and only if the suggestion list is non-empty.
C16_FixOrWarn ==
    Ended =>
        /\ cf.status = "fix" <=> cf.suggestions # <<>>
        /\ BaseCount < Needed =>
              /\ cf.suggestions = ExpectedSuggestions
              /\ cf.status = IF ExpectedSuggestions = <<>> THEN "warn" ELSE "fix"

\* C16 witness: both ladders succeeded, the result lists max_risk then
\* min_roi.
C16_Witness ==
    /\ Ended
    /\ cf.status = "fix"
    /\ Len(cf.suggestions) = 2
    /\ cf.suggestions[1].change = "max_risk"
    /\ cf.suggestions[2].change = "min_roi"

\* C17 as stated: with zero eligible candidates, a ladder with a step making
\* at least 3 candidates eligible gives "fix" and a suggestion of that
\* ladder's field with the value of its first such step, whatever max_actions.
C17_ThreeEligibleSuffice ==
    (Ended /\ BaseCount = 0) =>
        /\ RiskStepsReaching(3) # {} =>
              /\ cf.status = "fix"
              /\ \E i \in 1..Len(cf.suggestions) :
                    /\ cf.suggestions[i].change = "max_risk"
                    /\ cf.suggestions[i].to = ExpectedRisk(First(RiskStepsReaching(3)))
        /\ RoiStepsReaching(3) # {} =>
              /\ cf.status = "fix"
              /\ \E i \in 1..Len(cf.suggestions) :
                    /\ cf.suggestions[i].change = "min_roi"
                    /\ cf.suggestions[i].to = ExpectedRoi(First(RoiStepsReaching(3)))

\* C17 amended: with zero eligible candidates, a ladder with a step making at
\* least max(3, min(max_actions, 8)) candidates eligible gives "fix" and a
\* suggestion of that ladder's field with the value of its first such step.
C17_TargetEligibleSuffice ==
    (Ended /\ BaseCount = 0) =>
        /\ RiskStepsReaching(Needed) # {} =>
              /\ cf.status = "fix"
              /\ \E i \in 1..Len(cf.suggestions) :
                    /\ cf.suggestions[i].change = "max_risk"
                    /\ cf.suggestions[i].to = ExpectedRisk(First(RiskStepsReaching(Needed)))
        /\ RoiStepsReaching(Needed) # {} =>
              /\ cf.status = "fix"
              /\ \E i \in 1..Len(cf.suggestions) :
                    /\ cf.suggestions[i].change = "min_roi"
                    /\ cf.suggestions[i].to = ExpectedRoi(First(RoiStepsReaching(Needed)))

\* C17 witness: zero eligible candidates, max_actions = 4, and the max_risk
\* ladder reaches four eligible candidates exactly, at a step after the first
\* one reaching three.
C17_Witness ==
    /\ Ended
    /\ BaseCount = 0
    /\ policy.max_actions = 4
    /\ cf.status = "fix"
    /\ Len(RiskSuggestions) = 1
    /\ CountUnder(RiskSuggestions[1].to, policy.min_roi) = 4
    /\ First(RiskStepsReaching(3)) < First(RiskStepsReaching(4))

\* ------------------------------------------------------------ frame
\* C18: score_actions, knapsack_select and counterfactual leave their
\* arguments unchanged: no step of the script changes a field of the caller's
\* Policy or a row, column, value or the order of the caller's candidate
\* table, and the scored table handed to knapsack_select stays as
\* score_actions returned it.
C18_ArgumentsUnchanged ==
    [][/\ policy' = policy
       /\ raw' = raw
       /\ pc # "score" => df' = df]_vars

\* C18 witness: all three calls have returned, the scored table is ordered
\* otherwise than the input, a selection was made, and the ladders left tmp
\* with a max_risk and a min_roi other than the caller's.
C18_Witness ==
    /\ Ended
    /\ \E i \in 1..Len(df) : df[i].id # raw[i].id
    /\ selected # <<>>
    /\ tmp.ref = "tmp"
    /\ tmp.val.min_roi # policy.min_roi
    /\ \E i \in 1..Len(probes) : probes[i].max_risk # policy.max_risk
    /\ \A i \in 1..Len(raw) : "score" \notin DOMAIN raw[i]

\* ------------------------------------------------------------ repeated calls
\* A second call on the inputs of the first one has returned.
SameInputsTwice == Returned /\ prev.has /\ prev.budget = budget

C20_WalkCompletes ==
    (max_items >= 1 /\ budget >= 0 /\ EligibleRows # {}) =>
        /\ outcome \in {"running", "returned"}
        /\ pc \in {"start", "dp", "scan", "walk", "done"}
        /\ pc = "dp" => idx < n
        /\ pc = "walk" =>
              /\ kb[1] >= 0
              /\ Len(chosen_idx) + kb[1] = best[1]
              /\ kb[1] > 0 =>
                    /\ DictHas(parent[kb[1]], kb[2])
                    /\ DictGet(parent[kb[1]], kb[2])[1] = kb[1] - 1

\* C20 witness: a walk of three steps has reached item count 0 and the call
\* returned its selection.
C20_Witness ==
    /\ Returned
    /\ max_items >= 1
    /\ EligibleRows # {}
    /\ best[1] = 3
    /\ Len(chosen_idx) = 3
    /\ kb[1] = 0

\* ------------------------------------------------------------ the DP table
\* The candidates the outer loop has processed.
Processed == {candidates[i] : i \in 1..idx}

\* Sets of exactly k processed candidates whose discretized costs sum to b.
ExactSets(k, b) == {S \in SUBSET Processed : Cardinality(S) = k /\ DiscSum(S) = b}

\* The DP table exists: the loop is running or has run.
InDP == pc \in {"dp", "scan", "walk"}

RECURSIVE SumAt(_, _)
SumAt(f, s) == IF s = <<>> THEN 0 ELSE f[Head(s) + 1] + SumAt(f, Tail(s))

\* C22: for every order of the candidates, the indices collected by the walk
\* from the best cell (best_k, best_b) down to (0, 0) are best_k pairwise
\* distinct candidates whose discretized costs sum to best_b and whose scaled
\* scores sum to the value of the best cell.
C22_WalkYieldsBestSet ==
    (pc = "walk" /\ kb[1] = 0) =>
        /\ kb[2] = 0
        /\ Len(chosen_idx) = best[1]
        /\ \A i, j \in 1..Len(chosen_idx) : i # j => chosen_idx[i] # chosen_idx[j]
        /\ SumAt(costs, chosen_idx) = best[2]
        /\ SumAt(values, chosen_idx) = best[3]

\* ------------------------------------------------------------ relaxations
\* C23: every suggestion of counterfactual is a strict relaxation of the
\* original policy: a max_risk suggestion has to > from, a min_roi suggestion
\* has to < from, also when the original max_risk is above the clamp's 0.95 or
\* below its 0.05 and when the original min_roi is 0.
C23_SuggestionsRelax ==
    \A i \in 1..Len(suggestions) :
        /\ suggestions[i].change = "max_risk" =>
              /\ suggestions[i].from = policy.max_risk
              /\ suggestions[i].to > suggestions[i].from
        /\ suggestions[i].change = "min_roi" =>
              /\ suggestions[i].from = policy.min_roi
              /\ suggestions[i].to < suggestions[i].from

\* C23 witness: the original max_risk is above 0.95, so the four max_risk
\* probes ran at 0.95, below the original, without a suggestion; the min_roi
\* ladder gave the only suggestion.
C23_Witness ==
    /\ Ended
    /\ policy.max_risk > 95
    /\ Len(RiskProbes) = 4
    /\ \A k \in 1..4 : RiskProbes[k].max_risk < policy.max_risk
    /\ cf.status = "fix"
    /\ Len(cf.suggestions) = 1
    /\ cf.suggestions[1].change = "min_roi"

\* ------------------------------------------------------------ monotonicity
\* The policy relaxed by d steps of 0.05 in max_risk and e steps of 0.10 in
\* min_roi, without clamping.
Relaxed(d, e) ==
    [policy EXCEPT !.max_risk = policy.max_risk + 5 * d, !.min_roi = policy.min_roi - 10 * e]

\* Eligible count of score_actions on the input table under a probe's policy.
ProbeCount(mr, roi) ==
    EligibleCount(AddColumns(raw, [policy EXCEPT !.max_risk = mr, !.min_roi = roi]))

\* C24: eligibility is monotone in the policy: a candidate eligible under some
\* max_risk and min_roi is eligible under every higher max_risk and lower
\* min_roi; so within each ladder every step after a step that reaches the
\* target reaches it too, and the recorded step is the ladder's smallest
\* sufficient one.
C24_EligibilityMonotone ==
    Ended =>
        /\ \A i \in 1..Len(raw) :
              \A d, e \in 0..3 :
                  Eligible(raw[i], Relaxed(d, e)) =>
                      /\ Eligible(raw[i], Relaxed(d + 1, e))
                      /\ Eligible(raw[i], Relaxed(d, e + 1))
        /\ \A k, j \in 1..4 :
              k < j =>
                  /\ ProbeCount(ExpectedRisk(k), policy.min_roi) >= target
                        => ProbeCount(ExpectedRisk(j), policy.min_roi) >= target
                  /\ ProbeCount(policy.max_risk, ExpectedRoi(k)) >= target
                        => ProbeCount(policy.max_risk, ExpectedRoi(j)) >= target
        /\ \A i \in 1..Len(cf.suggestions) :
              LET g == cf.suggestions[i]
              IN  /\ g.change = "max_risk" =>
                        \A k \in 1..4 :
                            ProbeCount(ExpectedRisk(k), policy.min_roi) >= target
                                <=> ExpectedRisk(k) >= g.to
                  /\ g.change = "min_roi" =>
                        \A k \in 1..4 :
                            ProbeCount(policy.max_risk, ExpectedRoi(k)) >= target
                                <=> ExpectedRoi(k) <= g.to

\* C24 witness: the max_risk ladder was left at its second step, the first
\* step is insufficient and the third and fourth, never probed, are
\* sufficient with more eligible candidates than the second.
C24_Witness ==
    /\ Ended
    /\ Len(RiskProbes) = 2
    /\ Len(RiskSuggestions) = 1
    /\ CountUnder(ExpectedRisk(1), policy.min_roi) < Needed
    /\ CountUnder(ExpectedRisk(4), policy.min_roi) > CountUnder(ExpectedRisk(2), policy.min_roi)

\* ------------------------------------------------------------ reviewer feedback
\* Every incident id the session or the candidate list knows.
KnownIds ==
    {review_log[j].incident_id : j \in 1..Len(review_log)}
        \cup approved \cup rejected \cup {IncidentId(cand[j]) : j \in 1..Len(cand)}

\* The decision of the last entry of review_log for the id, "" if none.
LastDecision(iid) ==
    IF \E j \in 1..Len(review_log) : review_log[j].incident_id = iid
    THEN LET last == CHOOSE j \in 1..Len(review_log) :
                         /\ review_log[j].incident_id = iid
                         /\ \A h \in (j + 1)..Len(review_log) :
                               review_log[h].incident_id # iid
         IN  review_log[last].decision
    ELSE ""

\* C25: after any sequence of "Guardar feedback" clicks approved and rejected
\* are disjoint and hold exactly the ids whose most recent review_log entry is
\* Approve, respectively Reject; a click with "(sin decisión)" changes none of
\* review_log, approved and rejected; review_log only grows by appending.
C25_FeedbackSetsFollowLog ==
    /\ [](/\ approved \cap rejected = {}
          /\ \A iid \in KnownIds :
                /\ iid \in approved <=> LastDecision(iid) = "Approve"
                /\ iid \in rejected <=> LastDecision(iid) = "Reject")
    /\ [][/\ Len(review_log') >= Len(review_log)
          /\ SubSeq(review_log', 1, Len(review_log)) = review_log
          /\ flash' = "warning" =>
                /\ review_log' = review_log
                /\ approved' = approved
                /\ rejected' = rejected]_vars

\* C25 witness: an incident was approved and later rejected, another one is
\* approved, and the last click was made without a decision.
C25_Witness ==
    /\ pc = "ops"
    /\ flash = "warning"
    /\ approved # {}
    /\ \E a, b \in 1..Len(review_log) :
          /\ a < b
          /\ review_log[a].incident_id = review_log[b].incident_id
          /\ review_log[a].decision = "Approve"
          /\ review_log[b].decision = "Reject"
          /\ review_log[b].incident_id \in rejected

\* C26: distinct rows of the candidate list get distinct incident ids, so a
\* decision is shown (and reported) only for an incident that was on display
\* when its feedback was saved, never for a different incident.
C26_IdsIdentifyIncidents ==
    /\ \A a, b \in 1..Len(cand) : a # b => IncidentId(cand[a]) # IncidentId(cand[b])
    /\ \A j \in 1..Len(cand) :
          Incidents[j].reviewer.decision # "" => cand[j].ts \in reviewed

\* ------------------------------------------------------------ windows
\* The maximal runs of good rows, as (first, last).
MaximalRuns ==
    {r \in (0..(Len(is_good) - 1)) \X (0..(Len(is_good) - 1)) :
        /\ r[1] <= r[2]
        /\ \A k \in r[1]..r[2] : is_good[k + 1]
        /\ r[1] = 0 \/ ~is_good[r[1]]
        /\ r[2] = Len(is_good) - 1 \/ ~is_good[r[2] + 2]}

\* C27: contiguous_windows returns, in time order, exactly the maximal runs
\* of consecutive good rows of length at least min_len: every window consists
\* of good rows only, is bounded on each side by a bad row or an end of the
\* table, has hours equal to its number of rows, the windows are pairwise
\* disjoint, and no such run is missing.
C27_WindowsAreMaximalRuns ==
    pc = "win_done" =>
        /\ \A j \in 1..Len(windows) :
              /\ <<windows[j].start, windows[j].end>> \in MaximalRuns
              /\ windows[j].hours = windows[j].end - windows[j].start + 1
              /\ windows[j].hours >= min_len
        /\ \A j, h \in 1..Len(windows) : j < h => windows[j].end < windows[h].start
        /\ \A r \in MaximalRuns :
              r[2] - r[1] + 1 >= min_len =>
                  \E j \in 1..Len(windows) : windows[j].start = r[1] /\ windows[j].end = r[2]

\* C27 witness: two windows are returned, the first of two rows or more, the
\* second a single good row at the end of the table.
C27_Witness ==
    /\ pc = "win_done"
    /\ Len(windows) = 2
    /\ windows[2].end = Len(is_good) - 1
    /\ windows[2].hours = 1
    /\ windows[1].hours >= 2

====
